---- MODULE Spec2Model ----
(***************************************************************************)
(* OpenVINOTask of otx/algorithms/anomaly/tasks/openvino.py: metadata      *)
(* resolution, legacy migration, post-training quantization and            *)
(* deployment packaging, as operations on ModelEntity key->bytes stores.   *)
(***************************************************************************)
EXTENDS Integers, Sequences, FiniteSets, TLC

\* ------------------------------------------------------------------ bounds
MaxVal == 2
MaxItems == 2

Values == 0 .. MaxVal

\* ------------------------------------------------------------ byte buffers
\* Every value stored under a key of ModelEntity is a tagged record; a key
\* that was never set holds NoData and get_data on it raises KeyError.
NoData == [kind |-> "none"]
Malformed == [kind |-> "malformed"]
NotUtf8 == [kind |-> "notutf8"]
LabelSchemaBytes == [kind |-> "label_schema"]

Json(obj) == [kind |-> "json", obj |-> obj]
F32Bytes(v) == [kind |-> "f32", v |-> v]
XmlBytes(w, q, info) == [kind |-> "xml", w |-> w, quantized |-> q, info |-> info]
BinBytes(w, q) == [kind |-> "bin", w |-> w, quantized |-> q]

Keys ==
  {"openvino.xml", "openvino.bin", "metadata", "label_schema.json",
   "image_threshold", "pixel_threshold", "min", "max"}

ThresholdKeys == {"image_threshold", "pixel_threshold", "min", "max"}

EmptyStore == [k \in Keys |-> NoData]

\* --------------------------------------------------------- python values
Scalar(v) == [kind |-> "scalar", v |-> v]
Array(v) == [kind |-> "array", v |-> v]
Str(s) == [kind |-> "str", s |-> s]
Transform(list) == [kind |-> "transform", transforms |-> list]
NoValue == [kind |-> "novalue"]

\* np.array(x, dtype=np.float32).item(): rounding to the nearest
\* representable value; here the representable values are the even ones.
F32(x) == x - (x % 2)

\* ------------------------------------------------------------- task types
TaskTypes ==
  {"ANOMALY_CLASSIFICATION", "ANOMALY_DETECTION", "ANOMALY_SEGMENTATION",
   "CLASSIFICATION"}

\* str(task_type).lower()
Lower(t) ==
  CASE t = "ANOMALY_CLASSIFICATION" -> "anomaly_classification"
    [] t = "ANOMALY_DETECTION" -> "anomaly_detection"
    [] t = "ANOMALY_SEGMENTATION" -> "anomaly_segmentation"
    [] t = "CLASSIFICATION" -> "classification"

\* s.upper()
Upper(s) ==
  CASE s = "anomaly_classification" -> "ANOMALY_CLASSIFICATION"
    [] s = "anomaly_detection" -> "ANOMALY_DETECTION"
    [] s = "anomaly_segmentation" -> "ANOMALY_SEGMENTATION"
    [] s = "classification" -> "CLASSIFICATION"

\* s.split("_")[-1]
LastWord(s) ==
  CASE s = "anomaly_classification" -> "classification"
    [] s = "anomaly_detection" -> "detection"
    [] s = "anomaly_segmentation" -> "segmentation"
    [] s = "classification" -> "classification"

\* get_transforms(config=self.config.dataset.transform_config.train, ...)
ResizeT == [name |-> "Resize", height |-> 2, width |-> 3]
NormalizeT == [name |-> "Normalize", mean |-> <<1, 2>>, std |-> <<1, 3>>]
ToTensorT == [name |-> "ToTensorV2"]
ConfigTransform == Transform(<<ResizeT, NormalizeT, ToTensorT>>)

\* ------------------------------------------------------------------ state
ModelIds == {"m1", "m2"}
None == "None"

VARIABLES
  phase,              \* "new" before __init__, then "ready" or "failed"
  task_type,          \* self.task_type
  data,               \* ModelEntity key->bytes store, per model entity
  attrs,              \* ModelEntity model_format/optimization/precision fields
  exportable_code,    \* ModelEntity.exportable_code, <<>> while unset
  model,              \* self.task_environment.model: a model entity or None
  inference_model,    \* self.inference_model: the weights it was built from
  call,               \* the last operation and its arguments
  exc,                \* the exception the last operation raised, or "none"
  progress,           \* the progress callback's values in the last operation
  ret,                \* what the last operation returned
  hparams,            \* task_environment.get_hyper_parameters() and the config file
  quantize_call,      \* the arguments of nncf.quantize in the last operation
  tempdirs,           \* the temporary-directory events of the last operation
  writes,             \* the set_data calls of the last operation, in order
  hf_model            \* a HuggingFaceModelForDiffusion: training, target, scheduler

vars ==
  <<phase, task_type, data, attrs, exportable_code, model, inference_model,
    call, exc, progress, ret, hparams, quantize_call, tempdirs, writes, hf_model>>

\* ------------------------------------------------------ metadata resolution
\* _populate_metadata: the four fields are read in order and replaced by
\* their float32 scalar; a missing field raises KeyError.
PopulateMetadata(obj) ==
  IF \E k \in ThresholdKeys : k \notin DOMAIN obj
  THEN [exc |-> "KeyError", value |-> NoValue]
  ELSE [exc |-> "none",
        value |-> [k \in DOMAIN obj |->
                     IF k \in ThresholdKeys THEN Scalar(F32(obj[k].v)) ELSE obj[k]]]

\* np.frombuffer(buffer, dtype=np.float32): a one-dimensional array
FromBuffer(blob) == Array(blob.v)

\* _populate_metadata_legacy
PopulateMetadataLegacy(store, tt) ==
  IF \E k \in ThresholdKeys : store[k] = NoData
  THEN [exc |-> "KeyError", value |-> NoValue]
  ELSE [exc |-> "none",
        value |-> [transform |-> ConfigTransform,
                   image_threshold |-> FromBuffer(store["image_threshold"]),
                   pixel_threshold |-> FromBuffer(store["pixel_threshold"]),
                   min |-> FromBuffer(store["min"]),
                   max |-> FromBuffer(store["max"]),
                   task |-> Str(LastWord(Lower(tt)))]]

\* mutant: the JSON decode error is not caught
ResolveMetadataMutant(store, tt) ==
  LET blob == store["metadata"] IN
    IF blob.kind = "notutf8" THEN [exc |-> "UnicodeDecodeError", value |-> NoValue]
    ELSE IF blob.kind = "malformed" THEN [exc |-> "JSONDecodeError", value |-> NoValue]
    ELSE IF blob.kind = "json" /\ PopulateMetadata(blob.obj).exc = "none"
    THEN PopulateMetadata(blob.obj)
    ELSE PopulateMetadataLegacy(store, tt)

\* the try/except of get_metadata on an attached model's store: the JSON blob
\* under "metadata", else (KeyError, JSONDecodeError) the legacy blobs
ResolveMetadata(store, tt) ==
  LET blob == store["metadata"] IN
    IF blob.kind = "notutf8" THEN [exc |-> "UnicodeDecodeError", value |-> NoValue]
    ELSE IF blob.kind = "json" /\ PopulateMetadata(blob.obj).exc = "none"
    THEN PopulateMetadata(blob.obj)
    ELSE PopulateMetadataLegacy(store, tt)

\* mutant: without a model the initial empty mapping is returned
GetMetadataMutant(m, dat, tt) ==
  IF m = None THEN [exc |-> "none", value |-> NoValue]
  ELSE ResolveMetadata(dat[m], tt)

\* get_metadata on task_environment.model = m with stores dat
GetMetadata(m, dat, tt) ==
  IF m = None THEN [exc |-> "ValueError", value |-> NoValue]
  ELSE ResolveMetadata(dat[m], tt)

\* ------------------------------------------------------- IR model_info
Put(f, k, v) == (k :> v) @@ f

ModelInfo(field) == <<"model_info", field>>

\* mutant: the factor 255 is left out
Times255Mutant(arr) == arr

\* [x * 255.0 for x in arr]
Times255(arr) == [i \in DOMAIN arr |-> arr[i] * 255]

\* _serialize_list: " ".join(map(str, arr))
SerializeList(arr) == [kind |-> "numstr", nums |-> arr]

\* the loop over metadata["transform"]["transform"]["transforms"], from index i
RECURSIVE AddTransforms(_, _, _)
AddTransforms(extra, list, i) ==
  IF i > Len(list) THEN extra
  ELSE LET t == list[i] IN
    IF t.name = "Normalize"
    THEN AddTransforms(
           Put(Put(extra, ModelInfo("mean_values"), SerializeList(Times255(t.mean))),
               ModelInfo("scale_values"), SerializeList(Times255(t.std))),
           list, i + 1)
    ELSE IF t.name = "Resize"
    THEN AddTransforms(
           Put(Put(extra, ModelInfo("orig_height"), Scalar(t.height)),
               ModelInfo("orig_width"), Scalar(t.width)),
           list, i + 1)
    ELSE AddTransforms(extra, list, i + 1)

\* metadata["max"] - metadata["min"]: array - array is an array
Minus(a, b) == [kind |-> a.kind, v |-> a.v - b.v]

\* _metadata_in_ir_format, on the mapping get_metadata returned
MetadataInIrFormat(metadata) ==
  LET pass == DOMAIN metadata \ {"transform", "min", "max"}
      base == [key \in {ModelInfo(k) : k \in pass} |-> metadata[key[2]]]
      withT == IF "transform" \in DOMAIN metadata
               THEN AddTransforms(base, metadata["transform"].transforms, 1)
               ELSE base
      withN == IF "min" \in DOMAIN metadata /\ "max" \in DOMAIN metadata
               THEN Put(withT, ModelInfo("normalization_scale"),
                        Minus(metadata["max"], metadata["min"]))
               ELSE withT
  IN Put(Put(Put(withN, ModelInfo("reverse_input_channels"), [kind |-> "bool", v |-> FALSE]),
             ModelInfo("model_type"), Str("AnomalyDetection")),
         ModelInfo("labels"), Str("Normal Anomaly"))

\* ---------------------------------------------------------- model loading
\* AnomalyDetection.create_model raises RuntimeError on a graph without the
\* embedded model_info section and on weights that do not fit the graph.
CreateModelFails(xml, bin) == xml.info \in {"none", "corrupt"} \/ xml.w # bin.w

\* embed_ir_model_data reads the graph file before it adds the section
EmbedFails(xml) == xml.info = "corrupt"

\* mutant: the directory is removed only when the block ends normally
WithTemporaryDirectoryMutant(inner, raised) ==
  IF raised THEN <<"mkdtemp">> \o inner ELSE <<"mkdtemp">> \o inner \o <<"cleanup">>

\* with tempfile.TemporaryDirectory(): the events of a block whose body made
\* the events `inner`; __exit__ runs whether or not the body raised
WithTemporaryDirectory(inner, raised) == <<"mkdtemp">> \o inner \o <<"cleanup">>

\* embed_ir_model_data: the graph file with the model_info section added
EmbedIrModelData(xml) == [xml EXCEPT !.info = "embedded"]

\* model.set_data(key, ...) as an entry of `writes`
SetData(m, key) == [model |-> m, key |-> key]

\* mutant: the migration also stores the metadata it read under "metadata"
CreateFromLegacyMutant(m, dat, tt) ==
  LET md == GetMetadata(m, dat, tt) IN
    IF md.exc # "none"
    THEN [exc |-> md.exc, data |-> dat, tempdirs |-> <<>>, writes |-> <<>>]
    ELSE IF EmbedFails(dat[m]["openvino.xml"])
    THEN [exc |-> "RuntimeError", data |-> dat,
          tempdirs |-> WithTemporaryDirectory(<<>>, TRUE), writes |-> <<>>]
    ELSE [exc |-> "none",
          data |-> [dat EXCEPT ![m]["openvino.xml"] = EmbedIrModelData(dat[m]["openvino.xml"]),
                               ![m]["openvino.bin"] = dat[m]["openvino.bin"],
                               ![m]["metadata"] = Json(md.value)],
          tempdirs |-> WithTemporaryDirectory(<<>>, FALSE),
          writes |-> <<SetData(m, "openvino.xml"), SetData(m, "openvino.bin"),
                       SetData(m, "metadata")>>]

\* _create_from_legacy: [exc, data, tempdirs, writes]
CreateFromLegacy(m, dat, tt) ==
  LET md == GetMetadata(m, dat, tt) IN
    IF md.exc # "none"
    THEN [exc |-> md.exc, data |-> dat, tempdirs |-> <<>>, writes |-> <<>>]
    ELSE IF EmbedFails(dat[m]["openvino.xml"])
    THEN [exc |-> "RuntimeError", data |-> dat,
          tempdirs |-> WithTemporaryDirectory(<<>>, TRUE), writes |-> <<>>]
    ELSE [exc |-> "none",
          data |-> [dat EXCEPT ![m]["openvino.xml"] = EmbedIrModelData(dat[m]["openvino.xml"]),
                               ![m]["openvino.bin"] = dat[m]["openvino.bin"]],
          tempdirs |-> WithTemporaryDirectory(<<>>, FALSE),
          writes |-> <<SetData(m, "openvino.xml"), SetData(m, "openvino.bin")>>]

Loaded(store) == [xml |-> store["openvino.xml"], bin |-> store["openvino.bin"]]
NoModel == [xml |-> NoData, bin |-> NoData]

\* mutant: the migration runs whether or not the first load succeeds
GetOpenvinoModelMutant(m, dat, tt) ==
  IF m = None
  THEN [exc |-> "Exception", data |-> dat, loaded |-> NoModel, migrated |-> 0,
        attempts |-> 0, tempdirs |-> <<>>, writes |-> <<>>]
  ELSE IF dat[m]["openvino.xml"] = NoData \/ dat[m]["openvino.bin"] = NoData
  THEN [exc |-> "KeyError", data |-> dat, loaded |-> NoModel, migrated |-> 0,
        attempts |-> 0, tempdirs |-> <<>>, writes |-> <<>>]
  ELSE LET leg == CreateFromLegacy(m, dat, tt) IN
    IF leg.exc # "none"
    THEN [exc |-> leg.exc, data |-> leg.data, loaded |-> NoModel, migrated |-> 1,
          attempts |-> 1, tempdirs |-> leg.tempdirs,
          writes |-> leg.writes]
    ELSE IF CreateModelFails(leg.data[m]["openvino.xml"], leg.data[m]["openvino.bin"])
    THEN [exc |-> "RuntimeError", data |-> leg.data, loaded |-> NoModel, migrated |-> 1,
          attempts |-> 2, tempdirs |-> leg.tempdirs,
          writes |-> leg.writes]
    ELSE [exc |-> "none", data |-> leg.data, loaded |-> Loaded(leg.data[m]), migrated |-> 1,
          attempts |-> 2, tempdirs |-> leg.tempdirs,
          writes |-> leg.writes]

\* get_openvino_model: [exc, data, loaded, migrated, attempts, tempdirs, writes];
\* `attempts` counts the create_model calls, `migrated` the _create_from_legacy calls
GetOpenvinoModel(m, dat, tt) ==
  IF m = None
  THEN [exc |-> "Exception", data |-> dat, loaded |-> NoModel, migrated |-> 0,
        attempts |-> 0, tempdirs |-> <<>>, writes |-> <<>>]
  ELSE IF dat[m]["openvino.xml"] = NoData \/ dat[m]["openvino.bin"] = NoData
  THEN [exc |-> "KeyError", data |-> dat, loaded |-> NoModel, migrated |-> 0,
        attempts |-> 0, tempdirs |-> <<>>, writes |-> <<>>]
  ELSE IF ~CreateModelFails(dat[m]["openvino.xml"], dat[m]["openvino.bin"])
  THEN [exc |-> "none", data |-> dat, loaded |-> Loaded(dat[m]), migrated |-> 0,
        attempts |-> 1, tempdirs |-> <<>>, writes |-> <<>>]
  ELSE LET leg == CreateFromLegacy(m, dat, tt) IN
    IF leg.exc # "none"
    THEN [exc |-> leg.exc, data |-> leg.data, loaded |-> NoModel, migrated |-> 1,
          attempts |-> 1, tempdirs |-> leg.tempdirs,
          writes |-> leg.writes]
    ELSE IF CreateModelFails(leg.data[m]["openvino.xml"], leg.data[m]["openvino.bin"])
    THEN [exc |-> "RuntimeError", data |-> leg.data, loaded |-> NoModel, migrated |-> 1,
          attempts |-> 2, tempdirs |-> leg.tempdirs,
          writes |-> leg.writes]
    ELSE [exc |-> "none", data |-> leg.data, loaded |-> Loaded(leg.data[m]), migrated |-> 1,
          attempts |-> 2, tempdirs |-> leg.tempdirs,
          writes |-> leg.writes]

\* ------------------------------------------------------------- deployment
\* [float(x) for x in value.split(" ")]
ParseFloats(value) == [kind |-> "list", v |-> value.nums]

\* value.split(" ")
SplitWords(value) ==
  CASE value.s = "Normal Anomaly" -> [kind |-> "list", v |-> <<"Normal", "Anomaly">>]
    [] OTHER -> [kind |-> "list", v |-> <<value.s>>]

\* LabelSchemaMapper.forward(self.task_environment.label_schema)
LabelSchemaDict == [kind |-> "label_schema_dict"]

\* the key of `configuration` an IR key is stored under
ConfigKey(field) == IF field = "labels" THEN "modelapi_labels" ELSE field

\* _get_openvino_configuration: [exc, value]
GetOpenvinoConfiguration(m, dat, tt) ==
  IF m = None THEN [exc |-> "Exception", value |-> NoValue]
  ELSE LET md == GetMetadata(m, dat, tt) IN
    IF md.exc # "none" THEN [exc |-> md.exc, value |-> NoValue]
    ELSE LET ir == MetadataInIrFormat(md.value)
             fields == {key[2] : key \in DOMAIN ir}
             conv(f) == IF f = "labels" THEN SplitWords(ir[ModelInfo(f)])
                        ELSE IF f \in {"mean_values", "scale_values"}
                        THEN ParseFloats(ir[ModelInfo(f)])
                        ELSE ir[ModelInfo(f)]
         IN [exc |-> "none",
             value |-> [k \in {"labels"} \cup {ConfigKey(f) : f \in fields} |->
                          IF k = "modelapi_labels" THEN conv("labels")
                          ELSE IF k = "labels" THEN LabelSchemaDict
                          ELSE conv(k)]]

\* json.dumps raises TypeError on a numpy array
JsonSerializable(mapping) == \A k \in DOMAIN mapping : mapping[k].kind # "array"

\* mutant: the archive name is taken as given
ArcNameMutant(path) == path

\* ZipFile.write(filename, arcname): the archive name is normalised
ArcName(path) == IF path = "./README.md" THEN "README.md" ELSE path

Entry(path, content) == [path |-> path, content |-> content]
DemoFile(name) == [kind |-> "file", name |-> name]

\* mutant: the two weight files are written under each other's name
ArchiveMutant(xml, bin, parameters) ==
  << Entry("model/model.xml", bin),
     Entry("model/model.bin", xml),
     Entry("model/config.json", Json(parameters)),
     Entry(ArcName("python/requirements.txt"), DemoFile("requirements.txt")),
     Entry(ArcName("python/LICENSE"), DemoFile("LICENSE")),
     Entry(ArcName("python/demo.py"), DemoFile("demo.py")),
     Entry(ArcName("./README.md"), DemoFile("README.md")) >>

\* the ZipFile block of deploy: the entries written, in order
Archive(xml, bin, parameters) ==
  << Entry("model/model.xml", xml),
     Entry("model/model.bin", bin),
     Entry("model/config.json", Json(parameters)),
     Entry(ArcName("python/requirements.txt"), DemoFile("requirements.txt")),
     Entry(ArcName("python/LICENSE"), DemoFile("LICENSE")),
     Entry(ArcName("python/demo.py"), DemoFile("demo.py")),
     Entry(ArcName("./README.md"), DemoFile("README.md")) >>

\* deploy: [exc, code]; `code` is the value assigned to output_model.exportable_code
Deploy(m, dat, tt) ==
  IF m = None THEN [exc |-> "Exception", code |-> <<>>]
  ELSE LET cfg == GetOpenvinoConfiguration(m, dat, tt) IN
    IF cfg.exc # "none" THEN [exc |-> cfg.exc, code |-> <<>>]
    ELSE IF dat[m]["openvino.xml"] = NoData \/ dat[m]["openvino.bin"] = NoData
    THEN [exc |-> "KeyError", code |-> <<>>]
    ELSE IF ~JsonSerializable(cfg.value)
    THEN [exc |-> "TypeError", code |-> <<>>]
    ELSE [exc |-> "none",
          code |-> Archive(dat[m]["openvino.xml"], dat[m]["openvino.bin"],
                           [type_of_model |-> Str("AnomalyDetection"),
                            converter_type |-> Str(Upper(Lower(tt))),
                            model_parameters |-> cfg.value])]

\* ------------------------------------------------------- model artifacts
Quads == {q \in [ThresholdKeys -> Values] : q["min"] <= q["max"]}

MainQuads ==
  {q \in Quads : q["min"] = 0 /\ q["max"] = MaxVal
                 /\ q["pixel_threshold"] = q["image_threshold"]}

\* the JSON object of a current-format artifact (v1.4)
MetadataObject(q) ==
  [image_threshold |-> Scalar(q["image_threshold"]),
   pixel_threshold |-> Scalar(q["pixel_threshold"]),
   min |-> Scalar(q["min"]),
   max |-> Scalar(q["max"]),
   transform |-> Transform(<<ResizeT, NormalizeT>>),
   task |-> Str("classification")]

Without(obj, k) == [x \in DOMAIN obj \ {k} |-> obj[x]]

MetadataBlobs ==
  {NoData, Malformed, NotUtf8}
  \cup {Json(MetadataObject(q)) : q \in MainQuads}
  \cup {Json(Without(MetadataObject(q), "min")) : q \in {r \in MainQuads : r["image_threshold"] = 0}}

\* the four raw float32 blobs of a legacy artifact (v1.2.x)
LegacyBlobs(q) == [k \in ThresholdKeys |-> F32Bytes(F32(q[k]))]
NoLegacyBlobs == [k \in ThresholdKeys |-> NoData]

LegacyOptions ==
  {NoLegacyBlobs}
  \cup {LegacyBlobs(q) : q \in {r \in MainQuads : r["image_threshold"] = MaxVal}}
  \cup {[LegacyBlobs(q) EXCEPT !["max"] = NoData] : q \in {r \in MainQuads : r["image_threshold"] = 0}}

Artifact(xml, bin, meta, legacy) ==
  [k \in Keys |->
     IF k = "openvino.xml" THEN xml
     ELSE IF k = "openvino.bin" THEN bin
     ELSE IF k = "metadata" THEN meta
     ELSE IF k = "label_schema.json" THEN LabelSchemaBytes
     ELSE legacy[k]]

\* what a training or export run can have left in the attached model
TrainedArtifacts ==
  {Artifact(XmlBytes(1, qz, info), BinBytes(w, qz), meta, legacy) :
     qz \in BOOLEAN, info \in {"embedded", "none", "corrupt"}, w \in {1, 2},
     meta \in MetadataBlobs, legacy \in LegacyOptions}

\* a second model entity: a fresh one, or another exported model
OtherArtifacts ==
  {EmptyStore}
  \cup {Artifact(XmlBytes(2, FALSE, "embedded"), BinBytes(2, FALSE),
                 Json(MetadataObject(q)), NoLegacyBlobs) :
          q \in {r \in MainQuads : r["image_threshold"] = MaxVal}}

TrainedAttrs ==
  [model_format |-> "OPENVINO", optimization_type |-> "MO",
   optimization_methods |-> <<>>, precision |-> <<"FP32">>]

\* -------------------------------------------------------- hyper parameters
\* the member names of hparams.pot_parameters.preset
Presets == {"PERFORMANCE", "MIXED"}

\* QuantizationPreset(hparams.pot_parameters.preset.name.lower())
QuantizationPreset(name) ==
  CASE name = "PERFORMANCE" -> "performance"
    [] name = "MIXED" -> "mixed"

\* ptq_optimization_config.py in the task's base directory: absent, or the
\* mapping read_py_config returns for it
NoPtqFile == [exists |-> FALSE, config |-> <<>>]
PtqFile(config) == [exists |-> TRUE, config |-> config]

PtqFiles ==
  {NoPtqFile,
   PtqFile("fast_bias_correction" :> TRUE),
   PtqFile(("subset_size" :> 1) @@ ("preset" :> "mixed") @@ ("fast_bias_correction" :> TRUE))}

HParams(sizes, files) ==
  [stat_subset_size : sizes, preset : Presets, ptq_file : files]

\* -------------------------------------------------------------- operations
NoCall == [op |-> "none"]

InitOf(types, trained, others, hps) ==
  /\ phase = "new"
  /\ task_type \in types
  /\ \E a \in trained, b \in others :
       data = [i \in ModelIds |-> IF i = "m1" THEN a ELSE b]
  /\ attrs = [i \in ModelIds |-> TrainedAttrs]
  /\ exportable_code = [i \in ModelIds |-> <<>>]
  /\ model = "m1"
  /\ inference_model = NoModel
  /\ call = NoCall
  /\ exc = "none"
  /\ progress = <<>>
  /\ ret = NoValue
  /\ hparams \in hps
  /\ quantize_call = NoCall
  /\ tempdirs = <<>>
  /\ writes = <<>>
  /\ hf_model = NoValue

\* OpenVINOTask.__init__: a constructor that raises leaves no task behind
Construct ==
  /\ phase = "new"
  /\ LET r == GetOpenvinoModel(model, data, task_type) IN
       /\ phase' = IF r.exc = "none" THEN "ready" ELSE "failed"
       /\ data' = r.data
       /\ inference_model' = r.loaded
       /\ exc' = r.exc
       /\ call' = [op |-> "__init__", migrated |-> r.migrated, attempts |-> r.attempts]
       /\ tempdirs' = r.tempdirs
       /\ writes' = r.writes
  /\ progress' = <<>>
  /\ ret' = NoValue
  /\ quantize_call' = NoCall
  /\ UNCHANGED <<task_type, attrs, exportable_code, model, hparams, hf_model>>

\* the owner of the task environment assigns task_environment.model
SetModel(m) ==
  /\ phase = "ready"
  /\ model' = m
  /\ call' = [op |-> "set_model"]
  /\ exc' = "none"
  /\ progress' = <<>>
  /\ ret' = NoValue
  /\ quantize_call' = NoCall
  /\ tempdirs' = <<>>
  /\ writes' = <<>>
  /\ UNCHANGED <<phase, task_type, data, attrs, exportable_code, inference_model,
                 hparams, hf_model>>

GetMetadataOp ==
  /\ phase = "ready"
  /\ LET r == GetMetadata(model, data, task_type) IN
       /\ exc' = r.exc
       /\ ret' = r.value
  /\ call' = [op |-> "get_metadata"]
  /\ progress' = <<>>
  /\ quantize_call' = NoCall
  /\ tempdirs' = <<>>
  /\ writes' = <<>>
  /\ UNCHANGED <<phase, task_type, data, attrs, exportable_code, model, inference_model,
                 hparams, hf_model>>

DeployOp(output_model) ==
  /\ phase = "ready"
  /\ LET r == Deploy(model, data, task_type) IN
       /\ exc' = r.exc
       /\ exportable_code' =
            IF r.exc = "none" THEN [exportable_code EXCEPT ![output_model] = r.code]
            ELSE exportable_code
  /\ call' = [op |-> "deploy", output_model |-> output_model]
  /\ progress' = <<>>
  /\ ret' = NoValue
  /\ quantize_call' = NoCall
  /\ tempdirs' = <<>>
  /\ writes' = <<>>
  /\ UNCHANGED <<phase, task_type, data, attrs, model, inference_model, hparams, hf_model>>

\* _metadata_in_ir_format as an operation of its own: `call` keeps the
\* mapping get_metadata gave it
MetadataInIrFormatOp ==
  /\ phase = "ready"
  /\ LET md == GetMetadata(model, data, task_type) IN
       /\ exc' = md.exc
       /\ ret' = IF md.exc = "none"
                 THEN [kind |-> "mapping", value |-> MetadataInIrFormat(md.value)]
                 ELSE NoValue
       /\ call' = [op |-> "_metadata_in_ir_format", metadata |-> md.value]
  /\ progress' = <<>>
  /\ quantize_call' = NoCall
  /\ tempdirs' = <<>>
  /\ writes' = <<>>
  /\ UNCHANGED <<phase, task_type, data, attrs, exportable_code, model, inference_model,
                 hparams, hf_model>>

\* ------------------------------------------------------------ optimization
\* a dataset item is the list item.get_shapes_labels() returns: "A" for an
\* anomalous label, "N" for a normal one
ItemKinds == {<<>>, <<"N">>, <<"A">>, <<"N", "A">>, <<"A", "N">>}
Datasets == UNION {[1 .. n -> ItemKinds] : n \in 0 .. MaxItems}

\* item.get_shapes_labels()[0] raises IndexError on an item without labels
FilterRaises(dataset) == \E i \in DOMAIN dataset : Len(dataset[i]) = 0

\* [item for item in dataset if item.get_shapes_labels()[0].is_anomalous]
IsAnomalous(item) == item[1] = "A"
FilterAnomalous(dataset) == SelectSeq(dataset, IsAnomalous)

\* mutant: the type check is dropped
TypeRejectedMutant(optimization_type) == FALSE

\* optimization_type is not OptimizationType.POT
TypeRejected(optimization_type) == optimization_type # "POT"

\* check_if_quantized(ov_model)
CheckIfQuantized(xml) == xml.quantized

\* ov.Core().read_model(xml_path) with model.bin beside it
ReadModelFails(xml, bin) == xml.info = "corrupt" \/ xml.w # bin.w

\* nncf.quantize and ov.save_model: the compressed graph and its weights
CompressedXml(xml) == [xml EXCEPT !.quantized = TRUE]
CompressedBin(bin) == [bin EXCEPT !.quantized = TRUE]

\* the fields optimize stamps on output_model
StampedAttrs ==
  [model_format |-> "OPENVINO", optimization_type |-> "POT",
   optimization_methods |-> <<"QUANTIZATION">>, precision |-> <<"INT8">>]

\* optimization_parameters.update_progress(p, None), when parameters are given
Report(pr, has_params, p) == IF has_params THEN Append(pr, p) ELSE pr

\* _get_optimization_algorithms_config: the file's mapping, when the file
\* exists, updated with the two hyper parameters
GetOptimizationAlgorithmsConfig(hp) ==
  Put(Put(hp.ptq_file.config, "subset_size", hp.stat_subset_size),
      "preset", QuantizationPreset(hp.preset))

Min(a, b) == IF a <= b THEN a ELSE b

\* mutant: the requested size is passed on unclamped
ClampSubsetSizeMutant(config, n) == config

\* quantization_config.subset_size = min(quantization_config.subset_size, len(data_loader))
ClampSubsetSize(config, n) == [config EXCEPT !["subset_size"] = Min(@, n)]

\* nncf.quantize(ov_model, quantization_dataset, **quantization_config): the
\* dataset behind the data loader and the keyword arguments
QuantizeCall(hp, dataset) ==
  LET calibration == FilterAnomalous(dataset) IN
    [op |-> "quantize",
     calibration |-> calibration,
     config |-> ClampSubsetSize(GetOptimizationAlgorithmsConfig(hp), Len(calibration))]

Outcome(e, d, a, m, im, pr) ==
  [exc |-> e, data |-> d, attrs |-> a, model |-> m, inference_model |-> im, progress |-> pr,
   quantize_call |-> NoCall, tempdirs |-> <<>>, writes |-> <<>>]

\* the outcome r of the rest of a call that made the directory events `events`
\* and the quantize call q before it
After(events, q, r) == [r EXCEPT !.tempdirs = events \o @, !.quantize_call = q]

\* the outcome r of the rest of a call that made the set_data calls w before it
Wrote(w, r) == [r EXCEPT !.writes = w \o @]

\* the set_data calls of the tail of optimize, up to the label schema
WeightWrites(output_model) ==
  <<SetData(output_model, "openvino.xml"), SetData(output_model, "openvino.bin"),
    SetData(output_model, "label_schema.json")>>

\* mutant: the inference model is reloaded before the model is reassigned
PersistMutant(m, dat, at, im, tt, output_model, pr, has_params) ==
  LET d1 == [dat EXCEPT ![output_model]["openvino.xml"] = CompressedXml(dat[m]["openvino.xml"]),
                        ![output_model]["openvino.bin"] = CompressedBin(dat[m]["openvino.bin"]),
                        ![output_model]["label_schema.json"] = LabelSchemaBytes]
      a1 == [at EXCEPT ![output_model] = StampedAttrs]
      md == GetMetadata(m, d1, tt)
      w3 == WeightWrites(output_model)
  IN IF md.exc # "none" THEN Wrote(w3, Outcome(md.exc, d1, a1, m, im, pr))
     ELSE IF ~JsonSerializable(md.value)
     THEN Wrote(w3, Outcome("TypeError", d1, a1, m, im, pr))
     ELSE LET d2 == [d1 EXCEPT ![output_model]["metadata"] = Json(md.value)]
              ld == GetOpenvinoModel(m, d2, tt)
              w4 == Append(w3, SetData(output_model, "metadata")) \o ld.writes
          IN IF ld.exc # "none"
             THEN Wrote(w4, After(ld.tempdirs, NoCall,
                                  Outcome(ld.exc, ld.data, a1, m, im, pr)))
             ELSE Wrote(w4, After(ld.tempdirs, NoCall,
                                  Outcome("none", ld.data, a1, output_model, ld.loaded,
                                          Report(pr, has_params, 100))))

\* the tail of optimize: persist the compressed model into output_model, stamp it,
\* carry the metadata over, make it the task's model and reload
Persist(m, dat, at, im, tt, output_model, pr, has_params) ==
  LET d1 == [dat EXCEPT ![output_model]["openvino.xml"] = CompressedXml(dat[m]["openvino.xml"]),
                        ![output_model]["openvino.bin"] = CompressedBin(dat[m]["openvino.bin"]),
                        ![output_model]["label_schema.json"] = LabelSchemaBytes]
      a1 == [at EXCEPT ![output_model] = StampedAttrs]
      md == GetMetadata(m, d1, tt)
      w3 == WeightWrites(output_model)
  IN IF md.exc # "none" THEN Wrote(w3, Outcome(md.exc, d1, a1, m, im, pr))
     ELSE IF ~JsonSerializable(md.value)
     THEN Wrote(w3, Outcome("TypeError", d1, a1, m, im, pr))
     ELSE LET d2 == [d1 EXCEPT ![output_model]["metadata"] = Json(md.value)]
              ld == GetOpenvinoModel(output_model, d2, tt)
              w4 == Append(w3, SetData(output_model, "metadata")) \o ld.writes
          IN IF ld.exc # "none"
             THEN Wrote(w4, After(ld.tempdirs, NoCall,
                                  Outcome(ld.exc, ld.data, a1, output_model, im, pr)))
             ELSE Wrote(w4, After(ld.tempdirs, NoCall,
                                  Outcome("none", ld.data, a1, output_model, ld.loaded,
                                          Report(pr, has_params, 100))))

\* optimize; `fault` names the external call that fails, if any
Optimize(m, dat, at, im, tt, hp, optimization_type, dataset, output_model, has_params, fault) ==
  IF TypeRejected(optimization_type) THEN Outcome("ValueError", dat, at, m, im, <<>>)
  ELSE IF FilterRaises(dataset) THEN Outcome("IndexError", dat, at, m, im, <<>>)
  ELSE LET aborted == WithTemporaryDirectory(<<>>, TRUE) IN
    IF m = None THEN After(aborted, NoCall, Outcome("ValueError", dat, at, m, im, <<>>))
    ELSE IF dat[m]["openvino.xml"] = NoData \/ dat[m]["openvino.bin"] = NoData
    THEN After(aborted, NoCall, Outcome("KeyError", dat, at, m, im, <<>>))
    ELSE IF ReadModelFails(dat[m]["openvino.xml"], dat[m]["openvino.bin"])
    THEN After(aborted, NoCall, Outcome("RuntimeError", dat, at, m, im, <<>>))
    ELSE IF CheckIfQuantized(dat[m]["openvino.xml"])
    THEN After(aborted, NoCall, Outcome("RuntimeError", dat, at, m, im, <<>>))
    ELSE LET read == WithTemporaryDirectory(<<>>, FALSE)
             p10 == Report(<<>>, has_params, 10)
             q == QuantizeCall(hp, dataset)
      IN IF fault = "quantize" THEN After(read, q, Outcome("QuantizeError", dat, at, m, im, p10))
         ELSE LET p90 == Report(p10, has_params, 90) IN
           IF fault = "save"
           THEN After(read \o WithTemporaryDirectory(<<>>, TRUE), q,
                      Outcome("SaveError", dat, at, m, im, p90))
           ELSE After(read \o WithTemporaryDirectory(<<>>, FALSE), q,
                      Persist(m, dat, at, im, tt, output_model, p90, has_params))

OptimizeOp(optimization_type, dataset, output_model, has_params, fault) ==
  /\ phase = "ready"
  /\ LET r == Optimize(model, data, attrs, inference_model, task_type, hparams,
                       optimization_type, dataset, output_model, has_params, fault) IN
       /\ exc' = r.exc
       /\ data' = r.data
       /\ attrs' = r.attrs
       /\ model' = r.model
       /\ inference_model' = r.inference_model
       /\ progress' = r.progress
       /\ quantize_call' = r.quantize_call
       /\ tempdirs' = r.tempdirs
       /\ writes' = r.writes
  /\ call' = [op |-> "optimize", optimization_type |-> optimization_type,
              dataset |-> dataset, output_model |-> output_model,
              has_params |-> has_params]
  /\ ret' = NoValue
  /\ UNCHANGED <<phase, task_type, exportable_code, hparams, hf_model>>

\* ---------------------------------------------------------------- inference
\* what self.inference_model(item) gives for one item: whether pred_score
\* reaches 0.5 and how many annotations the anomaly map yields
Predictions == [score_high : BOOLEAN, annotations : 0 .. 1]
PredictionLists == UNION {[1 .. n -> Predictions] : n \in 0 .. MaxItems}

KnownTaskTypes == {"ANOMALY_CLASSIFICATION", "ANOMALY_SEGMENTATION", "ANOMALY_DETECTION"}

\* mutant: idx in place of idx + 1
PercentMutant(i, n) == ((i - 1) * 100) \div n

\* int((idx + 1) / len(dataset) * 100), for the 1-based position i
Percent(i, n) == (i * 100) \div n

\* one pass of the loop body on a known task type: what is appended to the item
Inferred(tt, pred) ==
  LET label == IF tt = "ANOMALY_CLASSIFICATION"
               THEN (IF pred.score_high THEN "Anomalous" ELSE "Normal")
               ELSE (IF pred.annotations = 0 THEN "Normal" ELSE "Anomalous")
  IN [labels |-> <<label>>,
      annotations |-> IF tt = "ANOMALY_CLASSIFICATION" THEN 0 ELSE pred.annotations,
      metadata |-> <<"Anomaly Map">>]

Untouched == [labels |-> <<>>, annotations |-> 0, metadata |-> <<>>]

\* infer: [exc, items, progress]; `items` is what the call appended to each
\* dataset item
Infer(m, tt, preds) ==
  LET n == Len(preds) IN
  IF m = None
  THEN [exc |-> "Exception", items |-> [i \in 1 .. n |-> Untouched], progress |-> <<>>]
  ELSE IF n > 0 /\ tt \notin KnownTaskTypes
  THEN [exc |-> "ValueError", items |-> [i \in 1 .. n |-> Untouched], progress |-> <<>>]
  ELSE [exc |-> "none",
        items |-> [i \in 1 .. n |-> Inferred(tt, preds[i])],
        progress |-> [i \in 1 .. n |-> Percent(i, n)]]

InferOp(preds) ==
  /\ phase = "ready"
  /\ LET r == Infer(model, task_type, preds) IN
       /\ exc' = r.exc
       /\ ret' = [kind |-> "dataset", items |-> r.items]
       /\ progress' = r.progress
  /\ call' = [op |-> "infer", size |-> Len(preds)]
  /\ quantize_call' = NoCall
  /\ tempdirs' = <<>>
  /\ writes' = <<>>
  /\ UNCHANGED <<phase, task_type, data, attrs, exportable_code, model, inference_model,
                 hparams, hf_model>>

\* --------------------------------------------------------------- evaluation
\* ResultSetEntity.performance before any evaluation
NullPerformance == [kind |-> "performance", metric |-> "null"]

\* MetricsHelper.compute_*(output_resultset).get_performance()
Performance(metric) == [kind |-> "performance", metric |-> metric]

\* evaluate: [exc, performance]; `performance` is output_resultset.performance
\* when the call is over
Evaluate(tt, resultset) ==
  IF tt = "ANOMALY_CLASSIFICATION"
  THEN [exc |-> "none", performance |-> Performance("f_measure")]
  ELSE IF tt = "ANOMALY_DETECTION"
  THEN [exc |-> "none", performance |-> Performance("anomaly_detection_scores")]
  ELSE IF tt = "ANOMALY_SEGMENTATION"
  THEN [exc |-> "none", performance |-> Performance("anomaly_segmentation_scores")]
  ELSE [exc |-> "ValueError", performance |-> resultset.performance]

EvaluateOp(resultset) ==
  /\ phase = "ready"
  /\ LET r == Evaluate(task_type, resultset) IN
       /\ exc' = r.exc
       /\ ret' = [kind |-> "resultset", performance |-> r.performance]
  /\ call' = [op |-> "evaluate", resultset |-> resultset]
  /\ progress' = <<>>
  /\ quantize_call' = NoCall
  /\ tempdirs' = <<>>
  /\ writes' = <<>>
  /\ UNCHANGED <<phase, task_type, data, attrs, exportable_code, model, inference_model,
                 hparams, hf_model>>

\* ---------------------------------------------------------- diffusion model
\* a torch.Tensor: what it holds, its batch dimension, whether it has a NaN
Tensor(what, batch, nan) == [kind |-> "tensor", what |-> what, batch |-> batch, nan |-> nan]

\* self.pipe.scheduler.config.prediction_type
PredictionTypes == {"epsilon", "v_prediction", "sample"}

\* a DiffusionBatchDataEntity: its number of samples, and whether its images
\* are still a list
BatchEntities == [batch : 1 .. MaxItems, images_list : BOOLEAN]

\* the tensors a caller can pass as `outputs`
OutputTensors == {Tensor("outputs", n, nan) : n \in 1 .. MaxItems, nan \in BOOLEAN}

\* HuggingFaceModelForDiffusion: self.training, the scheduler's prediction
\* type, and self.target, which exists once _customize_inputs has set it
HfModels == [training : BOOLEAN, prediction_type : PredictionTypes, target : {NoValue}]

\* _customize_inputs: [exc, value, target]
CustomizeInputs(hf, entity) ==
  LET n == entity.batch IN
  IF hf.prediction_type \notin {"epsilon", "v_prediction"}
  THEN [exc |-> "ValueError", value |-> NoValue, target |-> hf.target]
  ELSE [exc |-> "none",
        value |-> [sample |-> Tensor("noisy_latents", n, FALSE),
                   timestep |-> Tensor("timesteps", n, FALSE),
                   encoder_hidden_states |-> Tensor("encoder_hidden_states", n, FALSE)],
        target |-> IF hf.prediction_type = "epsilon"
                   THEN Tensor("noise", n, FALSE)
                   ELSE Tensor("velocity", n, FALSE)]

\* F.mse_loss(outputs, self.target, reduction="mean")
MseLoss(outputs, target) == [kind |-> "mse_loss", input |-> outputs, target |-> target]

\* _customize_outputs: [exc, value]
CustomizeOutputs(hf, outputs, inputs) ==
  IF outputs.nan THEN [exc |-> "ValueError", value |-> NoValue]
  ELSE IF ~hf.training THEN [exc |-> "NotImplementedError", value |-> NoValue]
  ELSE IF hf.target = NoValue THEN [exc |-> "AttributeError", value |-> NoValue]
  ELSE [exc |-> "none", value |-> [mse |-> MseLoss(outputs, hf.target)]]

\* the variables of the OpenVINO task, which the diffusion model never touches
TaskVars ==
  <<phase, task_type, data, attrs, exportable_code, model, inference_model,
    hparams, quantize_call, tempdirs, writes>>

\* Module.train(mode): self.training = mode
Train(mode) ==
  /\ hf_model # NoValue
  /\ hf_model' = [hf_model EXCEPT !.training = mode]
  /\ call' = [op |-> "train", mode |-> mode]
  /\ exc' = "none"
  /\ ret' = NoValue
  /\ UNCHANGED <<progress, TaskVars>>

CustomizeInputsOp(entity) ==
  /\ hf_model # NoValue
  /\ LET r == CustomizeInputs(hf_model, entity) IN
       /\ exc' = r.exc
       /\ ret' = r.value
       /\ hf_model' = [hf_model EXCEPT !.target = r.target]
  /\ call' = [op |-> "_customize_inputs", entity |-> entity]
  /\ UNCHANGED <<progress, TaskVars>>

CustomizeOutputsOp(outputs, inputs) ==
  /\ hf_model # NoValue
  /\ LET r == CustomizeOutputs(hf_model, outputs, inputs) IN
       /\ exc' = r.exc
       /\ ret' = r.value
  /\ call' = [op |-> "_customize_outputs", outputs |-> outputs, inputs |-> inputs]
  /\ UNCHANGED <<hf_model, progress, TaskVars>>

\* ------------------------------------------------------------ specifications
MainTrained ==
  {a \in TrainedArtifacts :
     /\ a["metadata"] \in {NoData} \cup {Json(MetadataObject(q)) : q \in {r \in MainQuads : r["image_threshold"] = MaxVal}}
     /\ (a["max"] = NoData => a["min"] = NoData)}

\* the optimize calls of Spec take a dataset of one item, unlabelled or anomalous
MainDatasets == {ds \in Datasets : Len(ds) = 1 /\ ds[1] \in {<<>>, <<"A">>}}

MainHParams == {hp \in HParams({1}, {NoPtqFile}) : hp.preset = "PERFORMANCE"}
MainPredictions == {ps \in PredictionLists : \A i \in DOMAIN ps : ps[i].score_high = (ps[i].annotations = 1)}

MainTaskTypes == {"ANOMALY_SEGMENTATION", "CLASSIFICATION"}

Init == InitOf(MainTaskTypes, MainTrained, OtherArtifacts, MainHParams)

Next ==
  \/ Construct
  \/ \E m \in ModelIds \cup {None} : SetModel(m)
  \/ GetMetadataOp
  \/ \E o \in {"m2"} : DeployOp(o)
  \/ \E t \in {"POT", "NNCF"}, ds \in MainDatasets, o \in ModelIds, hp \in BOOLEAN,
        f \in {"none", "quantize", "save"} : OptimizeOp(t, ds, o, hp, f)
  \/ \E ps \in MainPredictions : InferOp(ps)

Spec == Init /\ [][Next]_vars

\* metadata resolution and packaging over every artifact layout
InitMeta == InitOf(TaskTypes, TrainedArtifacts, OtherArtifacts, MainHParams)

NextMeta ==
  \/ Construct
  \/ \E m \in ModelIds \cup {None} : SetModel(m)
  \/ GetMetadataOp
  \/ \E o \in ModelIds : DeployOp(o)

SpecMeta == InitMeta /\ [][NextMeta]_vars

\* calibration: one loadable full-precision model, every dataset, every
\* hyper-parameter setting
CalibTrained ==
  {a \in MainTrained :
     /\ ~a["openvino.xml"].quantized /\ a["openvino.xml"].info = "embedded"
     /\ a["openvino.xml"].w = a["openvino.bin"].w
     /\ a["metadata"] # NoData /\ a["min"] = NoData /\ a["max"] = NoData}

InitCalib ==
  InitOf({"ANOMALY_CLASSIFICATION"}, CalibTrained, {EmptyStore},
         HParams({0, 1, MaxItems + 1}, PtqFiles))

\* the caller optimizes the trained model "m1" into "m2"
NextCalib ==
  \/ Construct
  \/ \E ds \in Datasets : model = "m1" /\ OptimizeOp("POT", ds, "m2", FALSE, "none")

SpecCalib == InitCalib /\ [][NextCalib]_vars

\* inference and evaluation on every task type and every prediction list
ResultSets == {[performance |-> NullPerformance], [performance |-> Performance("f_measure")]}

InitInfer == InitOf(TaskTypes, MainTrained, {EmptyStore}, MainHParams)

NextInfer ==
  \/ Construct
  \/ \E m \in {"m1", None} : SetModel(m)
  \/ \E ps \in PredictionLists : InferOp(ps)
  \/ \E rs \in ResultSets : EvaluateOp(rs)

SpecInfer == InitInfer /\ [][NextInfer]_vars

\* the IR mapping over every transform list, for both metadata schemas
TransformLists == UNION {[1 .. n -> {ResizeT, NormalizeT, ToTensorT}] : n \in 0 .. MaxItems}

IrMetadataBlobs ==
  {NoData}
  \cup {Json([MetadataObject(q) EXCEPT !.transform = Transform(l)]) :
          q \in MainQuads, l \in TransformLists}
  \cup {Json(Without(MetadataObject(q), "transform")) : q \in MainQuads}

IrTrained ==
  {Artifact(XmlBytes(1, FALSE, info), BinBytes(1, FALSE), meta, legacy) :
     info \in {"embedded", "none"}, meta \in IrMetadataBlobs,
     legacy \in {LegacyBlobs(q) : q \in {r \in MainQuads : r["image_threshold"] = MaxVal}}}

InitIr == InitOf({"ANOMALY_DETECTION"}, IrTrained, {EmptyStore}, MainHParams)

NextIr ==
  \/ Construct
  \/ MetadataInIrFormatOp
  \/ \E o \in {"m2"} : DeployOp(o)

SpecIr == InitIr /\ [][NextIr]_vars

\* the diffusion model on its own: no OpenVINO task is built
InitDiffusion ==
  /\ phase = "new"
  /\ task_type = "ANOMALY_CLASSIFICATION"
  /\ data = [i \in ModelIds |-> EmptyStore]
  /\ attrs = [i \in ModelIds |-> TrainedAttrs]
  /\ exportable_code = [i \in ModelIds |-> <<>>]
  /\ model = None
  /\ inference_model = NoModel
  /\ call = NoCall
  /\ exc = "none"
  /\ progress = <<>>
  /\ ret = NoValue
  /\ hparams \in MainHParams
  /\ quantize_call = NoCall
  /\ tempdirs = <<>>
  /\ writes = <<>>
  /\ hf_model \in HfModels

NextDiffusion ==
  \/ \E mode \in BOOLEAN : Train(mode)
  \/ \E entity \in BatchEntities : CustomizeInputsOp(entity)
  \/ \E outputs \in OutputTensors, inputs \in BatchEntities : CustomizeOutputsOp(outputs, inputs)

SpecDiffusion == InitDiffusion /\ [][NextDiffusion]_vars

\* ------------------------------------------------------------------ claims
\* what an operation that aborts cleanly leaves alone
LeavesAlone(d, a, c, m, im) ==
  /\ d = data /\ a = attrs /\ c = exportable_code /\ m = model /\ im = inference_model

HasWeights(store) ==
  /\ store["openvino.xml"] # NoData /\ store["openvino.bin"] # NoData
  /\ store["openvino.xml"].w = store["openvino.bin"].w

\* C1: optimize() with an optimization type other than POT raises ValueError,
\* writes nothing to any model entity, leaves task_environment.model and the
\* inference model alone and reports no progress.
C1_NonPotRejected ==
  [][(call'.op = "optimize" /\ call'.optimization_type # "POT")
       => (/\ exc' = "ValueError"
           /\ LeavesAlone(data', attrs', exportable_code', model', inference_model')
           /\ progress' = <<>>)]_vars

C1_Witness ==
  /\ call.op = "optimize" /\ call.optimization_type = "NNCF" /\ call.has_params
  /\ exc = "ValueError"
  /\ model # None /\ HasWeights(data[model]) /\ ~data[model]["openvino.xml"].quantized

\* C2 (as claimed): optimize(POT) on an attached model whose graph is already
\* quantized raises RuntimeError, writes nothing, leaves the task's model and
\* the inference model alone and reports no progress.
C2_QuantizedRaisesRuntimeError ==
  [][(/\ call'.op = "optimize" /\ call'.optimization_type = "POT"
      /\ model # None /\ HasWeights(data[model])
      /\ data[model]["openvino.xml"].quantized)
       => (/\ exc' = "RuntimeError"
           /\ LeavesAlone(data', attrs', exportable_code', model', inference_model')
           /\ progress' = <<>>)]_vars

\* C3: with no model attached, get_metadata, deploy, optimize(POT) and infer
\* each raise and change nothing; deploy sets no exportable_code and
\* get_metadata raises ValueError.
C3_NoModelRaises ==
  [][(/\ model = None
      /\ \/ call'.op \in {"get_metadata", "deploy", "infer"}
         \/ (call'.op = "optimize" /\ call'.optimization_type = "POT"))
       => (/\ exc' # "none"
           /\ LeavesAlone(data', attrs', exportable_code', model', inference_model')
           /\ progress' = <<>>
           /\ (call'.op = "get_metadata" => exc' = "ValueError" /\ ret' = NoValue))]_vars

C3_Witness ==
  /\ model = None /\ call.op = "deploy" /\ exc = "Exception"
  /\ exportable_code[call.output_model] = <<>>

LegacyFormat(store) ==
  /\ store["metadata"] = NoData
  /\ \A k \in ThresholdKeys : store[k] # NoData

\* C4 (as claimed): on a legacy-format artifact get_metadata returns scalar
\* values for image_threshold, pixel_threshold, min and max.
C4_LegacyScalars ==
  (call.op = "get_metadata" /\ model # None /\ LegacyFormat(data[model]))
    => (exc = "none" /\ \A k \in ThresholdKeys : ret[k].kind = "scalar")

\* the "metadata" key is missing, holds malformed JSON text, or holds a JSON
\* object without one of the four fields
NoUsableMetadata(store) ==
  \/ store["metadata"].kind \in {"none", "malformed"}
  \/ /\ store["metadata"].kind = "json"
     /\ \E k \in ThresholdKeys : k \notin DOMAIN store["metadata"].obj

\* C5 (as claimed): whenever the "metadata" key is missing or unusable,
\* get_metadata returns a mapping without raising, whatever else the store
\* holds.
C5_FallbackNeverRaises ==
  (call.op = "get_metadata" /\ model # None /\ NoUsableMetadata(data[model]))
    => exc = "none"

\* C5 (amended): whenever the "metadata" key is missing or unusable,
\* get_metadata falls back to the legacy blobs: it returns the legacy mapping
\* when all four blobs are present and raises KeyError when one is absent.
C5_FallbackToLegacy ==
  (call.op = "get_metadata" /\ model # None /\ NoUsableMetadata(data[model]))
    => IF \A k \in ThresholdKeys : data[model][k] # NoData
       THEN /\ exc = "none"
            /\ \A k \in ThresholdKeys : ret[k] = FromBuffer(data[model][k])
            /\ ret["transform"] = ConfigTransform
       ELSE exc = "KeyError" /\ ret = NoValue

C5_Witness ==
  /\ call.op = "get_metadata" /\ model # None
  /\ data[model]["metadata"] = Malformed
  /\ exc = "none" /\ ret["image_threshold"].kind = "array"

\* unpacking: the contents stored under a path of the archive
Unpack(archive, path) == {archive[i].content : i \in {j \in DOMAIN archive : archive[j].path = path}}

C7_DeployExportsOutputModel ==
  (call.op = "deploy" /\ exc = "none" /\ HasWeights(data[call.output_model]))
    => (/\ Unpack(exportable_code[call.output_model], "model/model.xml")
             = {data[call.output_model]["openvino.xml"]}
        /\ Unpack(exportable_code[call.output_model], "model/model.bin")
             = {data[call.output_model]["openvino.bin"]})

ArchivePaths ==
  {"model/model.xml", "model/model.bin", "model/config.json",
   "python/requirements.txt", "python/LICENSE", "python/demo.py", "README.md"}

\* C8: a successful deploy stores one archive with exactly the seven paths,
\* each once, whose model/config.json holds type_of_model = AnomalyDetection,
\* the upper-cased task type as converter_type, and model_parameters with
\* the label list.
C8_ArchiveLayout ==
  (call.op = "deploy" /\ exc = "none")
    => LET code == exportable_code[call.output_model]
           config == Unpack(code, "model/config.json")
       IN /\ {code[i].path : i \in DOMAIN code} = ArchivePaths
          /\ Len(code) = Cardinality(ArchivePaths)
          /\ \A c \in config :
               /\ c.kind = "json"
               /\ DOMAIN c.obj = {"type_of_model", "converter_type", "model_parameters"}
               /\ c.obj["type_of_model"] = Str("AnomalyDetection")
               /\ c.obj["converter_type"] = Str(task_type)
               /\ "labels" \in DOMAIN c.obj["model_parameters"]
               /\ c.obj["model_parameters"]["labels"] = LabelSchemaDict

C8_Witness ==
  /\ call.op = "deploy" /\ exc = "none"
  /\ Len(exportable_code[call.output_model]) = 7
  /\ task_type = "ANOMALY_DETECTION"

NonDecreasing(seq) == \A i, j \in DOMAIN seq : i <= j => seq[i] <= seq[j]
IsPrefix(p, seq) == Len(p) <= Len(seq) /\ \A i \in DOMAIN p : p[i] = seq[i]

C10_OptimizeSuccess ==
  (call.op = "optimize" /\ exc = "none")
    => LET out == call.output_model IN
       /\ \A k \in {"openvino.xml", "openvino.bin", "label_schema.json", "metadata"} :
            data[out][k] # NoData
       /\ data[out]["openvino.xml"].quantized /\ data[out]["openvino.bin"].quantized
       /\ attrs[out] = StampedAttrs
       /\ model = out
       /\ inference_model = Loaded(data[out])

C10_Witness ==
  /\ call.op = "optimize" /\ exc = "none" /\ call.output_model = "m2"
  /\ data["m1"]["openvino.xml"].quantized = FALSE
  /\ inference_model.xml.quantized

\* an item that carries an anomalous label, at any position of its label list
CarriesAnomalous(item) == \E i \in DOMAIN item : item[i] = "A"

\* C11: optimize() calibrates on exactly the anomalous-labelled samples: for
\* every input dataset, an item without shape labels or with a normal first
\* label included, the call gets past the filter and the calibration set
\* handed to the quantization is the subsequence of the items that carry an
\* anomalous label, in their original order.
C11_CalibratesOnAnomalous ==
  (call.op = "optimize" /\ call.optimization_type = "POT") =>
    /\ exc # "IndexError"
    /\ (quantize_call.op = "quantize" =>
          quantize_call.calibration = SelectSeq(call.dataset, CarriesAnomalous))

\* C12: the subset_size handed to the quantization is the minimum of the
\* requested stat_subset_size and the number of samples in the filtered
\* calibration set: never above the set's size, the requested value when the
\* set is large enough, 0 when the set is empty; subset_size and preset come
\* from the hyper parameters whatever ptq_optimization_config.py says.
C12_SubsetSizeClamped ==
  (call.op = "optimize" /\ quantize_call.op = "quantize") =>
    LET n == Len(quantize_call.calibration)
        requested == hparams.stat_subset_size
        config == quantize_call.config
    IN /\ config["subset_size"] <= n
       /\ config["subset_size"] <= requested
       /\ (config["subset_size"] = n \/ config["subset_size"] = requested)
       /\ (n = 0 => config["subset_size"] = 0)
       /\ config["preset"] = (IF hparams.preset = "MIXED" THEN "mixed" ELSE "performance")

\* a quantization whose request exceeds a non-empty calibration set, with a
\* config file that names another subset_size and another preset
C12_Witness ==
  /\ call.op = "optimize" /\ quantize_call.op = "quantize"
  /\ Len(quantize_call.calibration) > 0
  /\ hparams.stat_subset_size > Len(quantize_call.calibration)
  /\ "subset_size" \in DOMAIN hparams.ptq_file.config
  /\ hparams.ptq_file.config["subset_size"] # quantize_call.config["subset_size"]
  /\ hparams.preset = "PERFORMANCE"
  /\ hparams.ptq_file.config["preset"] = "mixed"

\* C13: on a task type that is none of the three anomaly types, infer() and
\* evaluate() both raise ValueError: evaluate() leaves
\* output_resultset.performance as it was, and infer() raises for every input
\* dataset, the empty one included, with no label, annotation or metadata
\* appended to any item.
C13_UnknownTaskTypeRaises ==
  (task_type \notin KnownTaskTypes /\ call.op \in {"infer", "evaluate"}) =>
    /\ (call.op = "evaluate" =>
          exc = "ValueError" /\ ret.performance = call.resultset.performance)
    /\ ((call.op = "infer" /\ model # None) =>
          exc = "ValueError" /\ \A i \in DOMAIN ret.items : ret.items[i] = Untouched)

\* C14: _customize_outputs, on outputs without NaN and with the target set,
\* returns a mapping with the key 'mse' when the model is in training mode and
\* a DiffusionBatchPredEntity holding one image per batch sample when it is
\* not.
C14_CustomizeOutputs ==
  (call.op = "_customize_outputs" /\ ~call.outputs.nan /\ hf_model.target # NoValue) =>
    /\ exc = "none"
    /\ (hf_model.training => "mse" \in DOMAIN ret)
    /\ (~hf_model.training =>
          /\ ret.kind = "DiffusionBatchPredEntity"
          /\ Len(ret.images) = call.inputs.batch)

\* C15: _customize_inputs, under either supported prediction type, returns a
\* mapping that contains the keys 'pixel_values' and 'input_ids' for every
\* batch entity.
C15_CustomizeInputs ==
  (call.op = "_customize_inputs" /\ hf_model.prediction_type \in {"epsilon", "v_prediction"}) =>
    /\ exc = "none"
    /\ {"pixel_values", "input_ids"} \subseteq DOMAIN ret

\* the first create_model attempt of a load from this store raises RuntimeError
FirstAttemptFails(store) ==
  /\ store["openvino.xml"] # NoData /\ store["openvino.bin"] # NoData
  /\ (store["openvino.xml"].info # "embedded"
      \/ store["openvino.xml"].w # store["openvino.bin"].w)

\* C16: in get_openvino_model(), _create_from_legacy() runs if and only if the
\* first create_model attempt raises RuntimeError, and at most once per call;
\* a model that loads in the current format is never rewritten; an error
\* raised by the load attempted after the migration propagates, with no
\* further migration or load attempt.
C16_MigrationOnFirstFailureOnly ==
  [][call'.op = "__init__" =>
       /\ call'.migrated = (IF FirstAttemptFails(data[model]) THEN 1 ELSE 0)
       /\ (~FirstAttemptFails(data[model]) => data' = data)
       /\ call'.attempts <= 2
       /\ ((call'.attempts = 2 /\ FirstAttemptFails(data'[model])) =>
             /\ exc' = "RuntimeError"
             /\ phase' = "failed"
             /\ inference_model' = inference_model)]_vars

\* a load that migrated the model and whose second attempt then failed
C16_Witness ==
  /\ call.op = "__init__" /\ call.migrated = 1 /\ call.attempts = 2
  /\ exc = "RuntimeError"
  /\ data["m1"]["openvino.xml"].info = "embedded"

\* C17: once optimize() has succeeded, the optimize(POT, ...) call that comes
\* next on the same task fails with RuntimeError('already optimized') and
\* changes nothing, so no second optimize() succeeds on the optimized model.
C17_OptimizedOnce ==
  [][(call.op = "optimize" /\ exc = "none" /\ call'.op = "optimize") =>
       /\ exc' # "none"
       /\ (call'.optimization_type = "POT" =>
             /\ exc' = "RuntimeError"
             /\ LeavesAlone(data', attrs', exportable_code', model', inference_model'))]_vars

\* the temporary directories held after the first k events
Held(events, k) ==
  Cardinality({i \in 1 .. k : events[i] = "mkdtemp"})
  - Cardinality({i \in 1 .. k : events[i] = "cleanup"})

\* C18: every temporary directory created by optimize() and by
\* _create_from_legacy() is removed on every exit path: once the operation has
\* returned or raised none of its directories is left, and optimize() never
\* holds more than one at a time.
C18_TempDirsRemoved ==
  /\ Held(tempdirs, Len(tempdirs)) = 0
  /\ (call.op = "optimize" => \A k \in 1 .. Len(tempdirs) : Held(tempdirs, k) <= 1)

\* an optimize() that raised inside its second directory block, after the
\* first one was closed
C18_Witness ==
  /\ call.op = "optimize" /\ exc = "SaveError"
  /\ tempdirs = <<"mkdtemp", "cleanup", "mkdtemp", "cleanup">>

HasTransform(list, name) == \E i \in DOMAIN list : list[i].name = name

\* the last transform of that name: its values are the ones that stay
LastTransform(list, name) ==
  list[CHOOSE i \in DOMAIN list :
         /\ list[i].name = name
         /\ \A j \in DOMAIN list : j > i => list[j].name # name]

\* C19: _metadata_in_ir_format maps the metadata to ("model_info", field)
\* keys: every field other than transform, min and max is passed through; a
\* Normalize transform gives mean_values and scale_values, its mean and std
\* times 255; a Resize transform gives orig_height and orig_width;
\* normalization_scale is max - min and is present exactly when min and max
\* both are; reverse_input_channels = False, model_type = 'AnomalyDetection'
\* and labels = 'Normal Anomaly' are always present.
C19_MetadataInIrFormat ==
  (call.op = "_metadata_in_ir_format" /\ exc = "none") =>
    LET md == call.metadata
        list == IF "transform" \in DOMAIN md THEN md["transform"].transforms ELSE <<>>
        has(f) == <<"model_info", f>> \in DOMAIN ret.value
        at(f) == ret.value[<<"model_info", f>>]
    IN /\ \A k \in DOMAIN md \ {"transform", "min", "max"} : has(k) /\ at(k) = md[k]
       /\ (HasTransform(list, "Normalize") =>
             LET t == LastTransform(list, "Normalize") IN
               /\ has("mean_values") /\ has("scale_values")
               /\ at("mean_values").nums = [i \in DOMAIN t.mean |-> t.mean[i] * 255]
               /\ at("scale_values").nums = [i \in DOMAIN t.std |-> t.std[i] * 255])
       /\ (HasTransform(list, "Resize") =>
             LET t == LastTransform(list, "Resize") IN
               /\ has("orig_height") /\ has("orig_width")
               /\ at("orig_height").v = t.height
               /\ at("orig_width").v = t.width)
       /\ (has("normalization_scale") <=> ("min" \in DOMAIN md /\ "max" \in DOMAIN md))
       /\ (has("normalization_scale") =>
             at("normalization_scale").v = md["max"].v - md["min"].v)
       /\ has("reverse_input_channels") /\ at("reverse_input_channels").v = FALSE
       /\ has("model_type") /\ at("model_type").s = "AnomalyDetection"
       /\ has("labels") /\ at("labels").s = "Normal Anomaly"

\* a mapping built from metadata with a Normalize and a Resize transform
C19_Witness ==
  /\ call.op = "_metadata_in_ir_format" /\ exc = "none"
  /\ "transform" \in DOMAIN call.metadata
  /\ HasTransform(call.metadata["transform"].transforms, "Normalize")
  /\ HasTransform(call.metadata["transform"].transforms, "Resize")
  /\ <<"model_info", "normalization_scale">> \in DOMAIN ret.value

Supported(t) == t.name \in {"Normalize", "Resize"}

\* C20: an unsupported transform kind is skipped without raising: it adds no
\* model_info key, the transforms after it are still processed, and the
\* migration, and a deploy() that builds its configuration from the same
\* data, complete.
C20_UnsupportedTransformSkipped ==
  LET md == GetMetadata(model, data, task_type) IN
    (/\ model # None /\ md.exc = "none" /\ "transform" \in DOMAIN md.value
     /\ \E i \in DOMAIN md.value["transform"].transforms :
          ~Supported(md.value["transform"].transforms[i])
     /\ HasWeights(data[model]) /\ data[model]["openvino.xml"].info # "corrupt") =>
      /\ (call.op = "_metadata_in_ir_format" =>
            /\ exc = "none"
            /\ ret.value = MetadataInIrFormat(
                       [md.value EXCEPT !["transform"].transforms = SelectSeq(@, Supported)]))
      /\ ((call.op = "__init__" /\ call.migrated = 1) => exc = "none")
      /\ (call.op = "deploy" => exc = "none")

\* C21: metadata normalization is not persisted. get_metadata(), and the
\* other operations that only read (_metadata_in_ir_format, deploy, infer,
\* evaluate), leave every key of every store as it was and call set_data on
\* nothing;
\* a load writes only through _create_from_legacy(): when the migration
\* completes it calls set_data on "openvino.xml" and then "openvino.bin" of
\* the attached model, the graph gets the embedded section, the weights keep
\* their bytes and no other key changes; a load that does not migrate, or
\* whose migration raises, writes nothing.
C21_NormalizationNotPersisted ==
  [][/\ (call'.op \in {"get_metadata", "_metadata_in_ir_format", "deploy", "infer", "evaluate"}
           => (data' = data /\ writes' = <<>>))
     /\ (call'.op = "__init__" =>
           /\ \A i \in ModelIds, k \in Keys :
                data'[i][k] # data[i][k] => (i = model /\ k = "openvino.xml")
           /\ IF call'.migrated = 1 /\ call'.attempts = 2
              THEN /\ writes' = <<SetData(model, "openvino.xml"), SetData(model, "openvino.bin")>>
                   /\ data'[model]["openvino.xml"] =
                        [data[model]["openvino.xml"] EXCEPT !.info = "embedded"]
              ELSE writes' = <<>> /\ data' = data)]_vars

\* a load that migrated a legacy-format artifact: the four raw blobs are
\* still there and no "metadata" blob was stored
C21_Witness ==
  /\ call.op = "__init__" /\ call.migrated = 1 /\ exc = "none"
  /\ writes = <<SetData("m1", "openvino.xml"), SetData("m1", "openvino.bin")>>
  /\ data["m1"]["metadata"] = NoData
  /\ \A k \in ThresholdKeys : data["m1"][k].kind = "f32"
  /\ data["m1"]["openvino.xml"].info = "embedded"

\* the store holds a JSON "metadata" blob with the four fields: get_metadata
\* takes the current-format path
CurrentFormat(store) ==
  /\ store["metadata"].kind = "json"
  /\ ThresholdKeys \subseteq DOMAIN store["metadata"].obj

\* C22 (as claimed): optimize() carries the metadata over in the current
\* schema for every source schema version: an optimize(POT) on an attached,
\* loadable, full-precision model whose get_metadata() returns, on the
\* current or on the legacy path, succeeds when no external call fails; the
\* "metadata" blob of output_model is then a single JSON blob computed from
\* the pre-optimization model, and get_metadata() afterwards takes the
\* current-format path and returns the same image_threshold, pixel_threshold,
\* min and max as before the call.
C22_MetadataCarriedOver ==
  [][(/\ call'.op = "optimize" /\ call'.optimization_type = "POT"
      /\ model # None /\ HasWeights(data[model])
      /\ ~data[model]["openvino.xml"].quantized
      /\ data[model]["openvino.xml"].info # "corrupt"
      /\ GetMetadata(model, data, task_type).exc = "none"
      /\ exc' \notin {"IndexError", "QuantizeError", "SaveError"})
       => (/\ exc' = "none"
           /\ model' = call'.output_model
           /\ CurrentFormat(data'[model'])
           /\ LET before == GetMetadata(model, data, task_type).value
                  after == GetMetadata(model', data', task_type)
              IN /\ after.exc = "none"
                 /\ \A k \in ThresholdKeys :
                      after.value[k].kind = "scalar" /\ after.value[k].v = before[k].v)]_vars

====
